---- MODULE Spec2Model ----
(***************************************************************************)
(* Model of applogs-timeseries-mongodb: the /search handler of             *)
(* webapp/app.py and the log generator of scripts/generate_logs.py.        *)
(*                                                                         *)
(* Both processes are single-threaded; one operation (one /search request  *)
(* or one generator run) is modelled at a time, each call to the store     *)
(* being one step whose outcome the environment chooses.                   *)
(*                                                                         *)
(* Text that the code parses (the start, end and page parameters) is a     *)
(* sequence of one-character strings; text that the code only compares or  *)
(* echoes (app, host, env, level) is a TLA+ string.  A request parameter   *)
(* is <<>> when absent and <<v>> when present with value v.                *)
(***************************************************************************)
EXTENDS Bags, FiniteSets, Integers, Sequences, TLC

VARIABLES
    config,          \* the configuration variables that are set (os.getenv is not None/empty)
    store,           \* the collection: a bag of log documents
    pc,              \* position of the running operation
    client,          \* the MongoClient object of the operation: "none", "open", "closed"
    ping,            \* outcome of client.admin.command('ping'): "none", "ok", "timeout"
    ops,             \* the store calls issued by the operation, in order
    out,             \* the lines printed by the operation, in order
    req,             \* /search: request.args
    page,            \* /search: local page
    match_criteria,  \* /search: local match_criteria
    total_docs,      \* /search: local total_docs
    total_pages,     \* /search: local total_pages
    skip,            \* /search: local skip
    pipeline,        \* /search: local pipeline
    count_failed,    \* /search: whether count_documents raised
    docs_read,       \* /search: documents appended to results before aggregate returned or raised
    fetch_error,     \* /search: the exception aggregate raised, "" when none
    response,        \* /search: the keyword arguments of render_template
    cli,             \* generator: the parsed command line (args)
    logs             \* generator: local logs

vars == <<config, store, pc, client, ping, ops, out, req, page, match_criteria,
          total_docs, total_pages, skip, pipeline, count_failed, docs_read,
          fetch_error, response, cli, logs>>

searchVars == <<req, page, match_criteria, total_docs, total_pages, skip,
                pipeline, count_failed, docs_read, fetch_error, response>>

genVars == <<cli, logs>>

----------------------------------------------------------------------------
(* Python values *)

None == <<>>

ValueError == <<"ValueError">>

\* dict.get(name, default) on request.args
ArgsGet(args, name, default) ==
    IF args[name] = <<>> THEN default ELSE args[name][1]

DigitChars == <<"0", "1", "2", "3", "4", "5", "6", "7", "8", "9">>

IsDigit(c) == \E i \in 1..Len(DigitChars) : DigitChars[i] = c

DigitVal(c) == (CHOOSE i \in 1..Len(DigitChars) : DigitChars[i] = c) - 1

\* the decimal value of the digits among s[from..to] (other characters skipped)
RECURSIVE DecVal(_, _, _)
DecVal(s, from, to) ==
    IF to < from THEN 0
    ELSE IF IsDigit(s[to]) THEN 10 * DecVal(s, from, to - 1) + DigitVal(s[to])
    ELSE DecVal(s, from, to - 1)

\* str.strip() of the blanks around s
RECURSIVE Strip(_)
Strip(s) ==
    IF s # <<>> /\ Head(s) = " " THEN Strip(Tail(s))
    ELSE IF s # <<>> /\ s[Len(s)] = " " THEN Strip(SubSeq(s, 1, Len(s) - 1))
    ELSE s

\* int(text) for a str: blanks stripped, an optional sign, then digits that single
\* underscores may separate; anything else raises ValueError
int(text) ==
    LET s      == Strip(text)
        signed == Len(s) >= 1 /\ s[1] \in {"-", "+"}
        first  == IF signed THEN 2 ELSE 1
        digitAt(i) == i >= first /\ i <= Len(s) /\ IsDigit(s[i])
    IN  IF /\ first <= Len(s)
           /\ \A i \in first..Len(s) :
                 \/ IsDigit(s[i])
                 \/ s[i] = "_" /\ digitAt(i - 1) /\ digitAt(i + 1)
        THEN [raised |-> FALSE,
              value  |-> IF signed /\ s[1] = "-"
                         THEN 0 - DecVal(s, first, Len(s))
                         ELSE DecVal(s, first, Len(s))]
        ELSE [raised |-> TRUE, value |-> 0]

----------------------------------------------------------------------------
(* datetime.datetime.strptime, as _strptime computes it: the format becomes a
   regular expression whose directives are ordered alternatives, matched
   ignoring case from the start of the string; text left over after the match
   and field values that are no calendar date raise ValueError. *)

D09 == {"0", "1", "2", "3", "4", "5", "6", "7", "8", "9"}

D19 == D09 \ {"0"}

\* the alternatives of a directive, in the order the regular expression tries them
DirectiveRegex(d) ==
    CASE d = "Y" -> << <<D09, D09, D09, D09>> >>
      [] d = "m" -> << <<{"1"}, {"0", "1", "2"}>>, <<{"0"}, D19>>, <<D19>> >>
      [] d = "d" -> << <<{"3"}, {"0", "1"}>>, <<{"1", "2"}, D09>>, <<{"0"}, D19>>,
                       <<D19>>, <<{" "}, D19>> >>
      [] d = "H" -> << <<{"2"}, {"0", "1", "2", "3"}>>, <<{"0", "1"}, D09>>, <<D09>> >>
      [] d = "M" -> << <<{"0", "1", "2", "3", "4", "5"}, D09>>, <<D09>> >>

\* '%Y-%m-%dT%H:%M'
FmtMinute == << <<"dir", "Y">>, <<"lit", "-">>, <<"dir", "m">>, <<"lit", "-">>,
                <<"dir", "d">>, <<"lit", "T">>, <<"dir", "H">>, <<"lit", ":">>,
                <<"dir", "M">> >>

\* '%Y-%m-%d'
FmtDate == << <<"dir", "Y">>, <<"lit", "-">>, <<"dir", "m">>, <<"lit", "-">>,
              <<"dir", "d">> >>

Lower(c) == IF c = "T" THEN "t" ELSE c

AltMatches(alt, s, si) ==
    /\ si + Len(alt) - 1 <= Len(s)
    /\ \A j \in 1..Len(alt) : s[si + j - 1] \in alt[j]

NoMatch == [ok |-> FALSE, end |-> 0, found |-> <<>>]

RECURSIVE MatchFrom(_, _, _, _)
RECURSIVE TryAlts(_, _, _, _, _, _)

\* the regular expression of fmt[fi..] matched at s[si..]: the first match in
\* the expression's order, with the position after it and the directives' values
MatchFrom(fmt, s, fi, si) ==
    IF fi > Len(fmt) THEN [ok |-> TRUE, end |-> si, found |-> <<>>]
    ELSE IF fmt[fi][1] = "lit"
         THEN IF si <= Len(s) /\ Lower(s[si]) = Lower(fmt[fi][2])
              THEN MatchFrom(fmt, s, fi + 1, si + 1)
              ELSE NoMatch
         ELSE TryAlts(fmt, s, fi, si, DirectiveRegex(fmt[fi][2]), 1)

TryAlts(fmt, s, fi, si, alts, k) ==
    IF k > Len(alts) THEN NoMatch
    ELSE IF AltMatches(alts[k], s, si)
         THEN LET rest == MatchFrom(fmt, s, fi + 1, si + Len(alts[k]))
              IN  IF rest.ok
                  THEN [ok |-> TRUE, end |-> rest.end,
                        found |-> <<DecVal(s, si, si + Len(alts[k]) - 1)>> \o rest.found]
                  ELSE TryAlts(fmt, s, fi, si, alts, k + 1)
         ELSE TryAlts(fmt, s, fi, si, alts, k + 1)

IsLeap(y) == y % 4 = 0 /\ (y % 100 # 0 \/ y % 400 = 0)

DaysInMonth(y, m) ==
    IF m = 2 THEN (IF IsLeap(y) THEN 29 ELSE 28)
    ELSE IF m \in {4, 6, 9, 11} THEN 30 ELSE 31

\* a datetime is <<year, month, day, hour, minute>>; fields the format lacks are 0
strptime(s, fmt) ==
    LET m == MatchFrom(fmt, s, 1, 1)
        f == m.found \o <<0, 0>>
    IN  IF ~m.ok THEN ValueError
        ELSE IF m.end # Len(s) + 1 THEN ValueError
        ELSE IF f[1] < 1 \/ f[3] > DaysInMonth(f[1], f[2]) THEN ValueError
        ELSE <<f[1], f[2], f[3], f[4], f[5]>>

\* faulty variant: an unparseable string becomes the earliest date instead of None
parse_datetime_string_epoch(dt_str) ==
    IF dt_str = <<>> THEN None
    ELSE LET a == strptime(dt_str, FmtMinute)
         IN  IF a # ValueError THEN a
             ELSE LET b == strptime(dt_str, FmtDate)
                  IN  IF b # ValueError THEN b ELSE <<1, 1, 1, 0, 0>>

parse_datetime_string(dt_str) ==
    IF dt_str = <<>> THEN None
    ELSE LET a == strptime(dt_str, FmtMinute)
         IN  IF a # ValueError THEN a
             ELSE LET b == strptime(dt_str, FmtDate)
                  IN  IF b # ValueError THEN b ELSE None

\* datetime comparison a <= b
DtLE(a, b) ==
    \/ a = b
    \/ \E i \in 1..Len(a) : /\ \A j \in 1..(i - 1) : a[j] = b[j]
                            /\ a[i] < b[i]

----------------------------------------------------------------------------
(* The store.  A log document is [timestamp, meta |-> [app, host, env], level];
   the collection is a bag of documents. *)

ConfigKeys == {"MONGODB_URI", "DB_NAME", "COLL_NAME", "TIME_FIELD", "META_FIELD"}

FieldAt(doc, key) ==
    CASE key = "level"     -> doc.level
      [] key = "meta.app"  -> doc.meta.app
      [] key = "meta.host" -> doc.meta.host
      [] key = "meta.env"  -> doc.meta.env
      [] key = "timestamp" -> doc.timestamp

\* whether a document satisfies a query filter: every key of the filter must hold,
\* a plain value by equality, a {$gte, $lte} document by inclusive comparison
Matches(filter, doc) ==
    \A key \in DOMAIN filter :
        IF key = "timestamp"
        THEN /\ ("$gte" \in DOMAIN filter[key]) => DtLE(filter[key]["$gte"], FieldAt(doc, key))
             /\ ("$lte" \in DOMAIN filter[key]) => DtLE(FieldAt(doc, key), filter[key]["$lte"])
        ELSE FieldAt(doc, key) = filter[key]

Matching(coll, filter) ==
    LET hit == {d \in DOMAIN coll : Matches(filter, d)}
    IN  [d \in hit |-> coll[d]]

\* collection.count_documents(filter), when it does not raise
count_documents(coll, filter) == BagCardinality(Matching(coll, filter))

Repeat(d, n) == [i \in 1..n |-> d]

RECURSIVE Expand(_, _, _)
Expand(order, coll, i) ==
    IF i > Len(order) THEN <<>>
    ELSE Repeat(order[i], coll[order[i]]) \o Expand(order, coll, i + 1)

\* the orders {"$sort": {"timestamp": -1}} may produce: newest first, documents
\* of equal timestamp in any order
SortedDesc(coll) ==
    LET docs   == DOMAIN coll
        n      == Cardinality(docs)
        orders == {o \in [1..n -> docs] :
                     /\ \A i, j \in 1..n : i # j => o[i] # o[j]
                     /\ \A i, j \in 1..n : i < j => DtLE(o[j].timestamp, o[i].timestamp)}
    IN  {Expand(o, coll, 1) : o \in orders}

HasStage(p, name) == \E i \in 1..Len(p) : p[i][1] = name

StageArg(p, name) == p[CHOOSE i \in 1..Len(p) : p[i][1] = name][2]

Drop(seq, n) == SubSeq(seq, n + 1, Len(seq))

Take(seq, n) == SubSeq(seq, 1, IF n < Len(seq) THEN n ELSE Len(seq))

\* the result lists collection.aggregate(p) may yield for the pipelines search
\* builds: an optional $match, a $sort, an optional $skip, a $limit
aggregate(coll, p) ==
    LET matched == IF HasStage(p, "$match") THEN Matching(coll, StageArg(p, "$match")) ELSE coll
        skipped(seq) == IF HasStage(p, "$skip") THEN Drop(seq, StageArg(p, "$skip")) ELSE seq
        limited(seq) == IF HasStage(p, "$limit") THEN Take(seq, StageArg(p, "$limit")) ELSE seq
    IN  {limited(skipped(seq)) : seq \in SortedDesc(matched)}

\* the exceptions a store call may raise
StoreErrors == {"OperationFailure", "AutoReconnect"}

----------------------------------------------------------------------------
(* webapp/app.py *)

PAGE_SIZE == 50

ConnectError ==
    "Failed to connect to MongoDB. Check connection string and ensure certifi is installed."

\* get_mongo_client(): the client is created, then pinged; a ping that times out
\* is printed and None is returned
get_mongo_client(ok) ==
    /\ client' = "open"
    /\ ping' = IF ok THEN "ok" ELSE "timeout"
    /\ ops' = ops \o << <<"MongoClient", "MONGODB_URI" \in config>>, <<"ping">> >>
    /\ out' = Append(out, IF ok THEN "MongoDB connection successful!"
                                ELSE "ServerSelectionTimeoutError")

\* int(request.args.get('page', '1') or 1)
PageArg(args) ==
    LET raw == ArgsGet(args, "page", <<"1">>)
    IN  IF raw = <<>> THEN [raised |-> FALSE, value |-> 1] ELSE int(raw)

\* faulty variant: no lower clamp
NormalPage_unclamped(args) ==
    IF PageArg(args).raised THEN 1 ELSE PageArg(args).value

\* lines 103-109: parse and normalize page
NormalPage(args) ==
    LET p == IF PageArg(args).raised THEN 1 ELSE PageArg(args).value
    IN  IF p < 1 THEN 1 ELSE p

\* lines 111-129: build match criteria for all filters
BuildMatchCriteria(level_val, start_time, end_time, app_val, host_val, env_val) ==
    LET time_criteria ==
            (IF end_time # None THEN "$lte" :> end_time ELSE <<>>)
            @@ (IF start_time # None THEN "$gte" :> start_time ELSE <<>>)
    IN  (IF env_val # "" THEN "meta.env" :> env_val ELSE <<>>)
        @@ (IF host_val # "" THEN "meta.host" :> host_val ELSE <<>>)
        @@ (IF app_val # "" THEN "meta.app" :> app_val ELSE <<>>)
        @@ (IF start_time # None \/ end_time # None
            THEN "timestamp" :> time_criteria ELSE <<>>)
        @@ (IF level_val # "" THEN "level" :> level_val ELSE <<>>)

\* lines 93-101 and 111-129: the match criteria of a request
SearchCriteria(args) ==
    BuildMatchCriteria(ArgsGet(args, "level", ""),
                       parse_datetime_string(ArgsGet(args, "start", <<>>)),
                       parse_datetime_string(ArgsGet(args, "end", <<>>)),
                       ArgsGet(args, "app", ""),
                       ArgsGet(args, "host", ""),
                       ArgsGet(args, "env", ""))

\* faulty variant: rounds down
TotalPages_floor(total) == IF total > 0 THEN total \div PAGE_SIZE ELSE 0

\* line 138: math.ceil(total_docs / PAGE_SIZE) if total_docs > 0 else 0
TotalPages(total) ==
    IF total > 0
    THEN (IF total % PAGE_SIZE = 0 THEN total \div PAGE_SIZE ELSE total \div PAGE_SIZE + 1)
    ELSE 0

\* lines 139-140
ClampPage(p, pages) == IF pages > 0 /\ p > pages THEN pages ELSE p

\* faulty variant: the offset is computed even when there are no pages
Skip_always(p, pages) == (p - 1) * PAGE_SIZE

\* line 142
Skip(p, pages) == IF pages # 0 THEN (p - 1) * PAGE_SIZE ELSE 0

\* lines 144-151: build pipeline with pagination
BuildPipeline(criteria, sk) ==
    (IF DOMAIN criteria # {} THEN << <<"$match", criteria>> >> ELSE <<>>)
    \o << <<"$sort", <<"timestamp", -1>>>> >>
    \o (IF sk # 0 THEN << <<"$skip", sk>> >> ELSE <<>>)
    \o << <<"$limit", PAGE_SIZE>> >>

\* render_template('index.html', ...): the values handed to the template.
\* prev_page and next_page are None or <<n>>.
Render(results, error, args, p, total, pages, has_prev, has_next) ==
    [results     |-> results,
     error       |-> error,
     app         |-> ArgsGet(args, "app", ""),
     host        |-> ArgsGet(args, "host", ""),
     env         |-> ArgsGet(args, "env", ""),
     level       |-> ArgsGet(args, "level", ""),
     start       |-> ArgsGet(args, "start", <<>>),
     end         |-> ArgsGet(args, "end", <<>>),
     page        |-> p,
     total       |-> total,
     total_pages |-> pages,
     page_size   |-> PAGE_SIZE,
     has_prev    |-> has_prev,
     has_next    |-> has_next,
     prev_page   |-> IF has_prev THEN <<p - 1>> ELSE None,
     next_page   |-> IF has_next THEN <<p + 1>> ELSE None]

\* lines 161-200: the response of a request that reached the page fetch
RenderPage(results, error, args, p, total, pages) ==
    Render(results, error, args, p, total, pages,
           p > 1 /\ pages > 0, pages > 0 /\ p < pages)

\* faulty variant: the documents read before the failure are shown
FailedResults_partial(partial) == partial

\* line 163: results=[] in the response of a failed fetch
FailedResults(partial) == <<>>

NoSearch ==
    /\ req = <<>> /\ page = 0 /\ match_criteria = <<>> /\ total_docs = 0
    /\ total_pages = 0 /\ skip = 0 /\ pipeline = <<>> /\ count_failed = FALSE
    /\ docs_read = 0 /\ fetch_error = "" /\ response = <<>>

NoSearch_next ==
    /\ req' = <<>> /\ page' = 0 /\ match_criteria' = <<>> /\ total_docs' = 0
    /\ total_pages' = 0 /\ skip' = 0 /\ pipeline' = <<>> /\ count_failed' = FALSE
    /\ docs_read' = 0 /\ fetch_error' = "" /\ response' = <<>>

\* a GET /search arrives
Search_Request(args) ==
    /\ pc = "idle"
    /\ pc' = "s_connect"
    /\ req' = args
    /\ UNCHANGED <<config, store, client, ping, ops, out, page, match_criteria,
                   total_docs, total_pages, skip, pipeline, count_failed, docs_read,
                   fetch_error, response, cli, logs>>

\* line 64, the store answers the ping
Search_Connected ==
    /\ pc = "s_connect"
    /\ get_mongo_client(TRUE)
    /\ pc' = "s_connected"
    /\ UNCHANGED <<config, store, searchVars, genVars>>

\* lines 64-85, the ping times out: the connection-error page is rendered, unless
\* int() raises ValueError on the page parameter, which nothing catches
Search_ConnectFailed ==
    /\ pc = "s_connect"
    /\ get_mongo_client(FALSE)
    /\ IF PageArg(req).raised
       THEN /\ pc' = "crashed"
            /\ response' = response
       ELSE /\ pc' = "done"
            /\ response' = Render(<<>>, ConnectError, req, PageArg(req).value, 0, 0,
                                  FALSE, FALSE)
    /\ UNCHANGED <<config, store, req, page, match_criteria, total_docs, total_pages,
                   skip, pipeline, count_failed, docs_read, fetch_error, genVars>>

\* lines 87-91: client[db_name] and db[coll_name] raise TypeError on None
Search_NameError ==
    /\ pc = "s_connected"
    /\ ~({"DB_NAME", "COLL_NAME"} \subseteq config)
    /\ pc' = "crashed"
    /\ UNCHANGED <<config, store, client, ping, ops, out, searchVars, genVars>>

\* lines 87-151 with the count as given (0 when count_documents raised)
Search_Counted(failed, counted) ==
    LET criteria == SearchCriteria(req)
        pages    == TotalPages(counted)
        p        == ClampPage(NormalPage(req), pages)
        sk       == Skip(p, pages)
    IN  /\ pc = "s_connected"
        /\ {"DB_NAME", "COLL_NAME"} \subseteq config
        /\ match_criteria' = criteria
        /\ ops' = Append(ops, <<"count_documents", criteria>>)
        /\ count_failed' = failed
        /\ total_docs' = counted
        /\ total_pages' = pages
        /\ page' = p
        /\ skip' = sk
        /\ pipeline' = BuildPipeline(criteria, sk)
        /\ pc' = "s_counted"
        /\ UNCHANGED <<config, store, client, ping, out, req, docs_read, fetch_error,
                       response, genVars>>

Search_CountOk == Search_Counted(FALSE, count_documents(store, SearchCriteria(req)))

Search_CountFailed == Search_Counted(TRUE, 0)

\* lines 153-156 and 181-200: the page is read to its end
Search_FetchOk ==
    /\ pc = "s_counted"
    /\ \E results \in aggregate(store, pipeline) :
        /\ docs_read' = Len(results)
        /\ response' = RenderPage(results, "", req, page, total_docs, total_pages)
    /\ fetch_error' = ""
    /\ ops' = ops \o << <<"aggregate", pipeline>>, <<"close">> >>
    /\ client' = "closed"
    /\ pc' = "done"
    /\ UNCHANGED <<config, store, ping, out, req, page, match_criteria, total_docs,
                   total_pages, skip, pipeline, count_failed, genVars>>

\* the places where reading a page of n documents is made to fail
FailPoints(n) == {k \in 0..n : k <= 1 \/ k = n}

\* lines 153-179: aggregate, or reading its cursor, raises after k documents
Search_FetchFailed ==
    /\ pc = "s_counted"
    /\ \E results \in aggregate(store, pipeline), e \in StoreErrors :
        \E k \in FailPoints(Len(results)) :
            /\ docs_read' = k
            /\ fetch_error' = e
            /\ out' = Append(out, "Aggregation error: " \o e)
            /\ response' = RenderPage(FailedResults(Take(results, k)),
                                      "Search failed: " \o e,
                                      req, page, total_docs, total_pages)
    /\ ops' = ops \o << <<"aggregate", pipeline>>, <<"close">> >>
    /\ client' = "closed"
    /\ pc' = "done"
    /\ UNCHANGED <<config, store, ping, req, page, match_criteria, total_docs,
                   total_pages, skip, pipeline, count_failed, genVars>>

\* the request is over; requests share no state
Search_End ==
    /\ pc \in {"done", "crashed"}
    /\ pc' = "idle"
    /\ client' = "none"
    /\ ping' = "none"
    /\ ops' = <<>>
    /\ out' = <<>>
    /\ NoSearch_next
    /\ UNCHANGED <<config, store, genVars>>

----------------------------------------------------------------------------
(* The search service: inputs and specification *)

S_Minute   == <<"2","0","2","4","-","0","1","-","0","2","T","1","0",":","3","0">>
S_Date     == <<"2","0","2","4","-","0","1","-","0","2">>
S_Short    == <<"2","0","2","4","-","1","-","2">>
S_LowerT   == <<"2","0","2","4","-","0","1","-","0","2","t","9",":","5">>
S_NotADate == <<"n","o","t","-","a","-","d","a","t","e">>
S_Feb30    == <<"2","0","2","4","-","0","2","-","3","0">>
S_Month13  == <<"2","0","2","4","-","1","3","-","0","1">>
S_Seconds  == <<"2","0","2","4","-","0","1","-","0","2","T","1","0",":","3","0",":","0","0">>

\* the size of the two large groups of documents in the stored fixture
BulkA == 75
BulkB == 48

Doc(ts, app, host, env, level) ==
    [timestamp |-> ts, meta |-> [app |-> app, host |-> host, env |-> env], level |-> level]

DocA == Doc(<<2024, 1, 1, 23, 59>>, "svc-a", "host-1", "dev", "INFO")
DocB == Doc(<<2024, 1, 2, 0, 0>>, "svc-b", "host-1", "dev", "INFO")
DocE == Doc(<<2024, 1, 2, 10, 30>>, "svc-a", "host-2", "prod", "ERROR")
DocF == Doc(<<2024, 1, 2, 10, 30>>, "svc-b", "host-2", "prod", "ERROR")

\* 125 documents, two of them of equal timestamp
Fixture == (DocA :> BulkA) @@ (DocB :> BulkB) @@ (DocE :> 1) @@ (DocF :> 1)

Stores == {EmptyBag, Fixture}

ConfigVariants == {ConfigKeys} \cup {ConfigKeys \ {k} : k \in ConfigKeys}

PageParams == {<<>>, << <<>> >>, << <<"a","b","c">> >>, << <<"0">> >>,
               << <<"2">> >>, << <<"5">> >>}

SearchRequests ==
    [app   : {<<>>, <<"svc-a">>},
     host  : {<<"">>, <<"host-1">>},
     env   : {<<>>, <<"dev">>},
     level : {<<"">>, <<"ERROR">>},
     start : {<<>>, <<S_Date>>},
     end   : {<< <<>> >>, <<S_NotADate>>},
     page  : PageParams]

Idle ==
    /\ pc = "idle" /\ client = "none" /\ ping = "none" /\ ops = <<>> /\ out = <<>>
    /\ NoSearch
    /\ cli = <<>> /\ logs = <<>>

Init ==
    /\ config \in ConfigVariants
    /\ store \in Stores
    /\ Idle

Next ==
    \/ \E args \in SearchRequests : Search_Request(args)
    \/ Search_Connected
    \/ Search_ConnectFailed
    \/ Search_NameError
    \/ Search_CountOk
    \/ Search_CountFailed
    \/ Search_FetchOk
    \/ Search_FetchFailed
    \/ Search_End

Spec == Init /\ [][Next]_vars

----------------------------------------------------------------------------
(* scripts/generate_logs.py *)

SECONDS_PER_DAY == 86400

\* line 128: all([mongo_uri, db_name, coll_name, time_field, meta_field])
ConfigComplete == ConfigKeys \subseteq config

\* get_mongo_client(mongo_uri) of the generator
gen_get_mongo_client(ok) ==
    /\ client' = "open"
    /\ ping' = IF ok THEN "ok" ELSE "timeout"
    /\ ops' = ops \o << <<"MongoClient", "MONGODB_URI" \in config>>, <<"ping">> >>
    /\ out' = out \o (IF ok THEN <<"MongoDB connection successful!">>
                            ELSE <<"ServerSelectionTimeoutError",
                                   "Failed to connect to MongoDB. Exiting.">>)

\* random.randint(lo, hi) returns any integer of lo..hi, both ends included;
\* the model draws the two ends
RandInt(lo, hi) == {lo, hi}

\* datetime.timedelta(days=d, seconds=sec), in seconds
timedelta(d, sec) == d * SECONDS_PER_DAY + sec

\* lines 152-159: the offsets that may be subtracted from datetime.now()
SampleOffsets(time_dist) ==
    IF time_dist = "recent"
    THEN {timedelta(0, sec) : sec \in RandInt(0, 3600)}
         \cup {timedelta(d, sec) : d \in RandInt(1, 7), sec \in RandInt(0, SECONDS_PER_DAY)}
    ELSE {timedelta(d, sec) : d \in RandInt(0, 7), sec \in RandInt(0, SECONDS_PER_DAY)}

\* line 146: resolve environments once
ResolveEnvs(args) ==
    IF args.envs # <<>> THEN args.envs
    ELSE IF args.env # <<>> /\ args.env[1] # "" THEN <<args.env[1]>>
    ELSE <<"dev">>

Elements(seq) == {seq[i] : i \in 1..Len(seq)}

\* faulty variant: one iteration too many
RangeLen_plus1(count) == IF count >= 0 THEN count + 1 ELSE 0

\* line 147: the number of iterations of "for i in range(args.count)"
RangeLen(count) == IF count > 0 THEN count ELSE 0

SeqToBag(seq) ==
    LET docs == Elements(seq)
    IN  [d \in docs |-> Cardinality({i \in 1..Len(seq) : seq[i] = d})]

\* the command line is parsed and the configuration loaded; lines 119-130
Gen_Start(args) ==
    /\ pc = "idle"
    /\ cli' = args
    /\ IF ConfigComplete
       THEN /\ pc' = "g_connect"
            /\ out' = out
       ELSE /\ pc' = "done"
            /\ out' = Append(out, "Error: Missing one or more MongoDB configuration variables in .env")
    /\ UNCHANGED <<config, store, client, ping, ops, searchVars, logs>>

\* lines 132-133, the store answers the ping
Gen_Connected ==
    /\ pc = "g_connect"
    /\ gen_get_mongo_client(TRUE)
    /\ pc' = "g_collection"
    /\ UNCHANGED <<config, store, searchVars, genVars>>

\* lines 132-135, the ping times out
Gen_ConnectFailed ==
    /\ pc = "g_connect"
    /\ gen_get_mongo_client(FALSE)
    /\ pc' = "done"
    /\ UNCHANGED <<config, store, searchVars, genVars>>

\* ensure_timeseries_collection: whatever create_collection does is printed
Gen_EnsureCollection ==
    /\ pc = "g_collection"
    /\ ops' = Append(ops, <<"create_collection">>)
    /\ \E msg \in {"Time-series collection created.",
                   "Collection already exists or is not a time-series collection.",
                   "Error ensuring time-series collection"} :
        out' = Append(out, msg)
    /\ pc' = "g_indexes"
    /\ UNCHANGED <<config, store, client, ping, searchVars, genVars>>

IndexKeys == <<"meta.app", "meta.host", "meta.env", "level">>

\* ensure_meta_indexes: the four create_index calls in one try block; a call
\* that raises ends the block
Gen_EnsureIndexes ==
    /\ pc = "g_indexes"
    /\ \E issued \in 1..Len(IndexKeys), raised \in BOOLEAN :
        /\ (issued < Len(IndexKeys)) => raised
        /\ ops' = ops \o [i \in 1..issued |-> <<"create_index", IndexKeys[i]>>]
        /\ out' = Append(out, IF raised THEN "Error creating meta indexes"
                                        ELSE "Ensured indexes")
    /\ pc' = "g_generate"
    /\ UNCHANGED <<config, store, client, ping, searchVars, genVars>>

\* lines 147-162: one iteration of the loop.  Of the document only the timestamp
\* (in seconds from datetime.now()) and meta are kept; build_log_document draws
\* the other fields independently of them.
Gen_Record ==
    /\ pc = "g_generate"
    /\ Len(logs) < RangeLen(cli.count)
    /\ \E app_name \in Elements(cli.apps), host \in Elements(cli.hosts),
          env_val \in Elements(ResolveEnvs(cli)),
          offset \in SampleOffsets(cli.time_dist) :
        logs' = Append(logs, [timestamp |-> 0 - offset,
                              meta |-> [app |-> app_name, host |-> host, env |-> env_val]])
    /\ UNCHANGED <<config, store, pc, client, ping, ops, out, searchVars, cli>>

\* lines 164-171 with logs empty: no insert, the client is closed
Gen_NothingToInsert ==
    /\ pc = "g_generate"
    /\ Len(logs) >= RangeLen(cli.count)
    /\ logs = <<>>
    /\ ops' = Append(ops, <<"close">>)
    /\ client' = "closed"
    /\ pc' = "done"
    /\ UNCHANGED <<config, store, ping, out, searchVars, genVars>>

\* lines 164-171, insert_many returns
Gen_Inserted ==
    /\ pc = "g_generate"
    /\ Len(logs) >= RangeLen(cli.count)
    /\ logs # <<>>
    /\ ops' = ops \o << <<"insert_many", logs>>, <<"close">> >>
    /\ store' = store (+) SeqToBag(logs)
    /\ out' = Append(out, "Inserted logs")
    /\ client' = "closed"
    /\ pc' = "done"
    /\ UNCHANGED <<config, ping, searchVars, genVars>>

\* lines 164-171, insert_many raises: the documents before the failing one are
\* stored (the insert is ordered), the error is printed
Gen_InsertFailed ==
    /\ pc = "g_generate"
    /\ Len(logs) >= RangeLen(cli.count)
    /\ logs # <<>>
    /\ ops' = ops \o << <<"insert_many", logs>>, <<"close">> >>
    /\ \E stored \in 0..(Len(logs) - 1) :
        store' = store (+) SeqToBag(SubSeq(logs, 1, stored))
    /\ out' = Append(out, "Error inserting logs")
    /\ client' = "closed"
    /\ pc' = "done"
    /\ UNCHANGED <<config, ping, searchVars, genVars>>

\* the largest --count of a run
MaxCount == 2

CommandLines ==
    [count     : (0 - 1)..MaxCount,
     apps      : {<<"my-app">>},
     hosts     : {<<"host-1">>},
     envs      : {<<>>, <<"staging", "prod">>},
     env       : {<<>>, <<"qa">>},
     time_dist : {"uniform", "recent"}]

GenInit ==
    /\ config \in SUBSET ConfigKeys
    /\ store = EmptyBag
    /\ Idle

GenNext ==
    \/ \E args \in CommandLines : Gen_Start(args)
    \/ Gen_Connected
    \/ Gen_ConnectFailed
    \/ Gen_EnsureCollection
    \/ Gen_EnsureIndexes
    \/ Gen_Record
    \/ Gen_NothingToInsert
    \/ Gen_Inserted
    \/ Gen_InsertFailed

GenSpec == GenInit /\ [][GenNext]_vars

----------------------------------------------------------------------------
(* The match criteria alone: every request of FilterRequests has its criteria
   built, and the criteria are judged on every document of Universe. *)

DateStrings == {<<>>, S_Minute, S_Date, S_Short, S_LowerT, S_NotADate, S_Feb30,
                S_Month13, S_Seconds}

DateParams == {<<>>} \cup {<<text>> : text \in DateStrings}

FilterRequests ==
    [app   : {<<>>, <<"">>, <<"svc-a">>},
     host  : {<<"">>, <<"host-1">>},
     env   : {<<>>, <<"dev">>},
     level : {<<"">>, <<"ERROR">>},
     start : DateParams,
     end   : DateParams,
     page  : {<<>>}]

Universe ==
    {Doc(ts, app, host, env, level) :
        ts \in {<<2024, 1, 1, 23, 59>>, <<2024, 1, 2, 0, 0>>, <<2024, 1, 2, 9, 5>>,
                <<2024, 1, 2, 10, 30>>, <<2024, 1, 2, 10, 31>>},
        app \in {"svc-a", "svc-b"}, host \in {"host-1", "host-2"},
        env \in {"dev", "prod"}, level \in {"INFO", "ERROR"}}

FilterInit ==
    /\ config = ConfigKeys
    /\ store = Fixture
    /\ pc = "f_request" /\ client = "none" /\ ping = "none" /\ ops = <<>> /\ out = <<>>
    /\ req \in FilterRequests
    /\ page = 0 /\ match_criteria = <<>> /\ total_docs = 0 /\ total_pages = 0
    /\ skip = 0 /\ pipeline = <<>> /\ count_failed = FALSE /\ docs_read = 0
    /\ fetch_error = "" /\ response = <<>>
    /\ cli = <<>> /\ logs = <<>>

\* lines 93-101 and 111-129 applied to the request
Filter_Build ==
    /\ pc = "f_request"
    /\ match_criteria' = SearchCriteria(req)
    /\ pc' = "f_built"
    /\ UNCHANGED <<config, store, client, ping, ops, out, req, page, total_docs,
                   total_pages, skip, pipeline, count_failed, docs_read, fetch_error,
                   response, cli, logs>>

FilterNext == Filter_Build

FilterSpec == FilterInit /\ [][FilterNext]_vars

----------------------------------------------------------------------------
(* Properties *)

\* the value submitted for a parameter, empty when the parameter is absent
Submitted(args, name, empty) == IF args[name] # <<>> THEN args[name][1] ELSE empty

Unparseable(text) ==
    strptime(text, FmtMinute) = ValueError /\ strptime(text, FmtDate) = ValueError

\* a document satisfies every filter the request supplies
Satisfies(args, doc) ==
    LET start == parse_datetime_string(Submitted(args, "start", <<>>))
        end   == parse_datetime_string(Submitted(args, "end", <<>>))
    IN  /\ Submitted(args, "app", "") # "" => doc.meta.app = args.app[1]
        /\ Submitted(args, "host", "") # "" => doc.meta.host = args.host[1]
        /\ Submitted(args, "env", "") # "" => doc.meta.env = args.env[1]
        /\ Submitted(args, "level", "") # "" => doc.level = args.level[1]
        /\ start # None => DtLE(start, doc.timestamp)
        /\ end # None => DtLE(doc.timestamp, end)

\* C1: the match criteria select a document if and only if it satisfies every
\* supplied filter (equality on meta.app, meta.host, meta.env and level, inclusive
\* bounds on timestamp); an absent or empty filter imposes no constraint, and a
\* start or end that parses in neither format gives the criteria of an absent one.
Thm_C1 ==
    pc = "f_built" =>
        /\ \A doc \in Universe : Matches(match_criteria, doc) <=> Satisfies(req, doc)
        /\ Unparseable(Submitted(req, "start", <<>>))
              => match_criteria = SearchCriteria([req EXCEPT !.start = <<>>])
        /\ Unparseable(Submitted(req, "end", <<>>))
              => match_criteria = SearchCriteria([req EXCEPT !.end = <<>>])

\* C1 witness: an unparseable start, a parsed end and two supplied filters
Witness_C1 ==
    /\ pc = "f_built"
    /\ req.start = <<S_NotADate>>
    /\ req.end = <<S_Minute>>
    /\ req.app = <<"svc-a">>
    /\ req.level = <<"">>
    /\ DOMAIN match_criteria = {"meta.app", "meta.host", "timestamp"}
    /\ \E doc \in Universe : Matches(match_criteria, doc)
    /\ \E doc \in Universe : ~Matches(match_criteria, doc)

\* the request has passed the count step
CountReached == pc = "s_counted" \/ (pc = "done" /\ ping = "ok")

SkipApplied(p) == IF HasStage(p, "$skip") THEN StageArg(p, "$skip") ELSE 0

StageIndex(p, name) == CHOOSE i \in 1..Len(p) : p[i][1] = name

IsSortedDesc(results) ==
    \A i \in 1..(Len(results) - 1) : DtLE(results[i + 1].timestamp, results[i].timestamp)

Min(a, b) == IF a < b THEN a ELSE b

Max(a, b) == IF a > b THEN a ELSE b

\* C2: past the count step, total_pages is ceil(total / 50) and 0 for total 0;
\* the offset applied to the fetch is (page - 1) * 50 when there are pages and 0
\* when there are none; the fetch is limited to 50 documents, newest first.
Thm_C2 ==
    CountReached =>
        /\ total_docs >= 0
        /\ total_pages * 50 >= total_docs
        /\ (total_pages - 1) * 50 < total_docs
        /\ total_docs = 0 => total_pages = 0
        /\ skip = (IF total_pages > 0 THEN (page - 1) * 50 ELSE 0)
        /\ SkipApplied(pipeline) = skip
        /\ HasStage(pipeline, "$sort") /\ StageArg(pipeline, "$sort") = <<"timestamp", -1>>
        /\ HasStage(pipeline, "$limit") /\ StageArg(pipeline, "$limit") = 50
        /\ StageIndex(pipeline, "$limit") = Len(pipeline)
        /\ HasStage(pipeline, "$skip")
              => /\ StageIndex(pipeline, "$sort") < StageIndex(pipeline, "$skip")
                 /\ StageIndex(pipeline, "$skip") < StageIndex(pipeline, "$limit")
        /\ (pc = "done" /\ fetch_error = "")
              => /\ \E i \in 1..Len(ops) : ops[i] = <<"aggregate", pipeline>>
                 /\ Len(response.results) <= 50
                 /\ Len(response.results)
                      = Min(50, Max(0, count_documents(store, match_criteria) - skip))
                 /\ IsSortedDesc(response.results)
                 /\ \A i \in 1..Len(response.results) :
                        Matches(match_criteria, response.results[i])

\* C2 witness: total 125, page 5 requested, page 3 fetched at offset 100
Witness_C2 ==
    /\ pc = "done"
    /\ fetch_error = ""
    /\ total_docs = 125
    /\ total_pages = 3
    /\ page = 3
    /\ SkipApplied(pipeline) = 100
    /\ Len(response.results) = 25

\* the page the request asks for: 1 when the parameter is absent, empty or no integer
RequestedPage(args) == IF PageArg(args).raised THEN 1 ELSE PageArg(args).value

\* C3 as stated: the page is never below 1 and, for every total, equals
\* total_pages whenever the requested page exceeds total_pages.
Claim_C3 ==
    CountReached =>
        /\ page >= 1
        /\ RequestedPage(req) > total_pages => page = total_pages
        /\ pc = "done" => response.page = page

\* C3 amended: the page used for the fetch and reported is never below 1; when
\* total_pages > 0 and the requested page exceeds it the page is total_pages;
\* otherwise (no pages, or a requested page within them) it is the requested
\* page raised to at least 1.
Thm_C3 ==
    CountReached =>
        /\ page >= 1
        /\ (total_pages > 0 /\ RequestedPage(req) > total_pages) => page = total_pages
        /\ (total_pages = 0 \/ RequestedPage(req) <= total_pages)
              => page = Max(1, RequestedPage(req))
        /\ pc = "done" => response.page = page

\* C3 witness: page 5 requested of an empty result is fetched and reported as 5
Witness_C3 ==
    /\ pc = "done"
    /\ total_docs = 0
    /\ total_pages = 0
    /\ RequestedPage(req) = 5
    /\ response.page = 5

\* C4: when the count fails no error is surfaced: total and total_pages are 0,
\* the fetch is issued without a $skip stage and with limit 50, and the response
\* of a fetch that succeeds has an empty error.
Thm_C4 ==
    (count_failed /\ pc \in {"s_counted", "done"}) =>
        /\ total_docs = 0
        /\ total_pages = 0
        /\ skip = 0
        /\ ~HasStage(pipeline, "$skip")
        /\ HasStage(pipeline, "$limit") /\ StageArg(pipeline, "$limit") = 50
        /\ pc = "done"
              => /\ \E i \in 1..Len(ops) : ops[i] = <<"aggregate", pipeline>>
                 /\ response.total = 0
                 /\ response.total_pages = 0
                 /\ fetch_error = "" => response.error = ""

\* C4 witness: the count failed, page 5 was requested, the first 50 documents came
Witness_C4 ==
    /\ pc = "done"
    /\ count_failed
    /\ fetch_error = ""
    /\ RequestedPage(req) = 5
    /\ response.error = ""
    /\ Len(response.results) = 50

Echoed(resp, args) ==
    /\ resp.app = Submitted(args, "app", "")
    /\ resp.host = Submitted(args, "host", "")
    /\ resp.env = Submitted(args, "env", "")
    /\ resp.level = Submitted(args, "level", "")
    /\ resp.start = Submitted(args, "start", <<>>)
    /\ resp.end = Submitted(args, "end", <<>>)

\* C5: when the page fetch fails, also after documents were read, the response
\* has a non-empty error, no results, and the six filter values as submitted.
Thm_C5 ==
    (pc = "done" /\ fetch_error # "") =>
        /\ response.error # ""
        /\ response.results = <<>>
        /\ Echoed(response, req)

\* C5 witness: the fetch failed after a document was read
Witness_C5 ==
    /\ pc = "done"
    /\ fetch_error # ""
    /\ docs_read >= 1
    /\ req.app = <<"svc-a">>
    /\ req.start = <<S_Date>>
    /\ req.end = <<S_NotADate>>
    /\ response.end = S_NotADate

\* C6: whatever the query parameters, a request whose connection fails ends with
\* the rendered 'Failed to connect' page, the filter values as submitted, no
\* results, total 0, total_pages 0, no count and no fetch; no exception escapes.
Claim_C6 ==
    (ping = "timeout" /\ pc \in {"done", "crashed"}) =>
        /\ pc = "done"
        /\ response.error = ConnectError
        /\ Echoed(response, req)
        /\ response.results = <<>>
        /\ response.total = 0
        /\ response.total_pages = 0
        /\ \A i \in 1..Len(ops) : ops[i][1] \notin {"count_documents", "aggregate"}

\* C7: with any configuration variable missing, the operation makes no store
\* interaction: no client is created or pinged and no other store call is issued.
Claim_C7 ==
    ~ConfigComplete => (client = "none" /\ ops = <<>>)

\* C8: every record of a uniform run has its timestamp in [now - 7 days, now].
Claim_C8 ==
    \A i \in 1..Len(logs) :
        cli.time_dist = "uniform"
            => (0 - 7 * 86400 <= logs[i].timestamp /\ logs[i].timestamp <= 0)

\* C9: a client created during an operation is closed when the operation ends,
\* on every exit path.
Claim_C9 ==
    pc = "done" => client # "open"

InsertCalls == {i \in 1..Len(ops) : ops[i][1] = "insert_many"}

Bootstrapped(i) ==
    \A j \in 1..Len(ops) : ops[j][1] \in {"create_collection", "create_index"} => j < i

\* C10 as stated: every run that connects produces exactly count records and
\* makes exactly one bulk insert carrying them, after the bootstrapping and
\* before the close; a run that fails to connect generates and inserts nothing.
Claim_C10 ==
    /\ Cardinality(InsertCalls) <= 1
    /\ (pc = "done" /\ ping = "ok")
          => /\ Len(logs) = cli.count
             /\ \E i \in InsertCalls :
                   /\ ops[i] = <<"insert_many", logs>>
                   /\ Bootstrapped(i)
                   /\ ops[Len(ops)] = <<"close">> /\ i < Len(ops)
    /\ (pc = "done" /\ ping = "timeout") => (logs = <<>> /\ InsertCalls = {})

\* C10 amended: a run that connects with count >= 1 produces exactly count
\* records and makes exactly one bulk insert carrying them, after the
\* bootstrapping (whatever it printed) and before the close, also when the
\* insert fails; with count <= 0 it produces no record and issues no insert.
\* A run that fails to connect generates and inserts nothing.
Thm_C10 ==
    /\ Cardinality(InsertCalls) <= 1
    /\ (pc = "done" /\ ping = "ok" /\ cli.count >= 1)
          => /\ Len(logs) = cli.count
             /\ \E i \in InsertCalls :
                   /\ ops[i] = <<"insert_many", logs>>
                   /\ Bootstrapped(i)
                   /\ ops[Len(ops)] = <<"close">> /\ i < Len(ops)
             /\ \E j \in 1..Len(ops) : ops[j][1] = "create_collection"
             /\ \E j \in 1..Len(ops) : ops[j][1] = "create_index"
    /\ (pc = "done" /\ ping = "ok" /\ cli.count <= 0)
          => (logs = <<>> /\ InsertCalls = {})
    /\ (pc = "done" /\ ping = "timeout") => (logs = <<>> /\ InsertCalls = {})

\* C10 witness: a run of count 2 whose bootstrapping and insert all failed
Witness_C10 ==
    /\ pc = "done"
    /\ ping = "ok"
    /\ cli.count = 2
    /\ Len(logs) = 2
    /\ Cardinality(InsertCalls) = 1
    /\ \E i \in 1..Len(out) : out[i] = "Error inserting logs"
    /\ \E i \in 1..Len(out) : out[i] = "Error ensuring time-series collection"
    /\ \E i \in 1..Len(out) : out[i] = "Error creating meta indexes"

====
